---- MODULE Spec2Model ----
(***************************************************************************)
(* A model of the slice-view panel of neuroglancer                         *)
(* (src/neuroglancer/sliceview/panel.ts): the per-frame draw() pipeline,   *)
(* the pick-ID bookkeeping behind updateMouseState(), the redraw           *)
(* subscriptions of the visible-layer tracker, and the pointer navigation  *)
(* (pan, rotate, zoomByMouse).                                             *)
(*                                                                         *)
(* Collaborators whose code lives in other files of the repository         *)
(* (SliceView, NavigationState, PickIDManager, OffscreenFramebuffer,       *)
(* VisibleRenderLayerTracker, RenderedDataPanel, the mouse-drag helper)    *)
(* are modelled from their description in the design document.             *)
(***************************************************************************)
EXTENDS Integers, Sequences, FiniteSets, TLC

-----------------------------------------------------------------------------
(* Bounds of the model *)

\* number of render layers known to the layer manager
NumLayers == 2
\* largest number of pickable objects one layer shows
MaxObj == 1

\* largest zoom factor reached
MaxZoom == 3
\* largest absolute coordinate of the spatial position
MaxCoord == 6
\* largest absolute coordinate of the spatial position while dragging
MaxDragCoord == 1

Layers == 1..NumLayers

-----------------------------------------------------------------------------
(* Values *)

\* the null layer reference (mouseState.pickedRenderLayer = null)
None == 0
\* what the Pick ID Manager answers for "no object"
NoObject == <<None, 0>>

\* element sizes handed to onResize: (clientWidth, clientHeight).  Widths are
\* multiples of 4 and heights even, so that width / 2, height / 2 and
\* width / 4 are whole numbers, as the floating-point code computes them.
ClientSizes == {<<0, 0>>, <<4, 2>>, <<8, 2>>}

\* pixels of the largest offscreen target, in GL window coordinates
Pixels == (0..7) \X (0..1)

\* where object k of layer l is painted (GL window coordinates): the first
\* object of every layer at the same pixel, so that layers overlap; the others
\* in the right half, which only the wide target holds
PixelOf(l, k) == IF k = 1 THEN <<1, 1>> ELSE <<3 + l, 1>>

\* 3-vectors
VAdd(a, b) == <<a[1] + b[1], a[2] + b[2], a[3] + b[3]>>
VSub(a, b) == <<a[1] - b[1], a[2] - b[2], a[3] - b[3]>>
VScale(a, s) == <<a[1] * s, a[2] * s, a[3] * s>>
VDot(a, b) == a[1] * b[1] + a[2] * b[2] + a[3] * b[3]
VCross(a, b) ==
  <<a[2] * b[3] - a[3] * b[2], a[3] * b[1] - a[1] * b[3], a[1] * b[2] - a[2] * b[1]>>
\* vec3.scaleAndAdd(out, a, b, s) = a + b * s
VScaleAndAdd(a, b, s) == VAdd(a, VScale(b, s))

Zero3 == <<0, 0, 0>>
AxisX == <<1, 0, 0>>
AxisY == <<0, 1, 0>>
AxisZ == <<0, 0, 1>>

Min(a, b) == IF a < b THEN a ELSE b
Range(s) == {s[i] : i \in 1..Len(s)}

-----------------------------------------------------------------------------
VARIABLES
  sliceView,      \* the viewport: size, validity, axes, viewportToData
  nav,            \* the navigation state: valid, position, orientation, zoom
  fb,             \* the panel's offscreen framebuffer: size and pick attachment
  pickIDs,        \* the Pick ID Manager's mapping: pickIDs[id] = <<layer, payload>>
  visibleLayers,  \* the tracker's visible layers, in order of attachment
  subs,           \* subs[l]: bindings of scheduleRedraw on layer l's redrawNeeded
  content,        \* content[l]: number of objects layer l currently shows
  showAxisLines,  \* viewer.showAxisLines.value
  mouse,          \* <<mouseX, mouseY>> of the panel
  mouseState,     \* the viewer's MouseSelectionState
  scaleBar,       \* scaleBarWidget.dimensions
  redrawPending,  \* a redraw has been scheduled and not yet drawn
  drag,           \* the relative mouse drag in progress, if any
  last,           \* the last handler run: its name, result and calls made
  drawLog,        \* the steps performed by the last draw() call, in order
  frameIDs,       \* the pick IDs register() returned during the last effective draw()
  everIssued      \* every pick ID register() has ever returned

vars == <<sliceView, nav, fb, pickIDs, visibleLayers, subs, content, showAxisLines,
          mouse, mouseState, scaleBar, redrawPending, drag, last, drawLog,
          frameIDs, everIssued>>

renderVars == <<fb, pickIDs, scaleBar, drawLog, frameIDs, everIssued>>
trackerVars == <<visibleLayers, subs>>
navVars == <<nav, drag>>

-----------------------------------------------------------------------------
(* The viewport (SliceView) *)

\* viewportAxes[2] x viewportAxes[3]: the third column of the orientation
ThirdAxis(axes) == VCross(axes[1], axes[2])

\* vec3.transformMat4(out, v, viewportToData): the navigation state's matrix is
\* translation(position) * rotation(orientation) * scale(zoom)
ViewportToData(sv, v) ==
  VAdd(sv.center,
       VScale(VAdd(VAdd(VScale(sv.viewportAxes[1], v[1]), VScale(sv.viewportAxes[2], v[2])),
                   VScale(ThirdAxis(sv.viewportAxes), v[3])),
              sv.pixelSize))

HasValidViewport(sv) == sv.hasViewportToData /\ sv.width > 0 /\ sv.height > 0

\* the viewport follows the navigation state on every change notification
UpdateViewportFromNavigationState(sv, n) ==
  IF ~n.valid THEN sv
  ELSE [sv EXCEPT !.hasViewportToData = TRUE,
                  !.viewportAxes = n.orientation,
                  !.center = n.position,
                  !.pixelSize = n.zoomFactor]

SetViewportSize(sv, w, h) == [sv EXCEPT !.width = w, !.height = h]

-----------------------------------------------------------------------------
(* The Pick ID Manager *)

PickClear == << >>

\* register(owner, payload): the next unused nonzero ID
PickRegister(ids, owner, payload) ==
  [ids |-> Append(ids, <<owner, payload>>), id |-> Len(ids) + 1]

\* resolve(pickID)
PickResolve(ids, id) ==
  IF id = 0 THEN NoObject
  ELSE IF id \in 1..Len(ids) THEN ids[id] ELSE NoObject

\* setMouseState(mouseState, pickID)
PickSetMouseState(ids, ms, id) ==
  [ms EXCEPT !.pickedRenderLayer = PickResolve(ids, id)[1],
             !.pickedValue = PickResolve(ids, id)[2]]

-----------------------------------------------------------------------------
(* The offscreen framebuffer *)

BlankPick == [p \in Pixels |-> 0]

\* bind(width, height): the textures are reallocated when the size changed
OffscreenBind(f, w, h) ==
  IF f.width = w /\ f.height = h THEN f
  ELSE [width |-> w, height |-> h, pick |-> BlankPick]

OffscreenHasSize(f, w, h) == f.width = w /\ f.height = h

\* readPixelAsUint32(PICK, x, y); nothing is read outside the target
OffscreenReadPick(f, x, y) ==
  IF x \in 0..(f.width - 1) /\ y \in 0..(f.height - 1) /\ <<x, y>> \in Pixels
  THEN f.pick[<<x, y>>] ELSE 0

\* a fragment written at pixel px with emit(color, pickId); clipped to the target
EmitPick(pick, w, h, px, id) ==
  IF px[1] < w /\ px[2] < h /\ px \in Pixels THEN [pick EXCEPT ![px] = id] ELSE pick

-----------------------------------------------------------------------------
(* draw() *)

\* RenderLayer.draw(renderContext) of layer l, objects k, k+1, ...: each object
\* registers a pick ID and is painted with it
RECURSIVE LayerDrawFrom(_, _, _)
LayerDrawFrom(l, k, ctx) ==
  IF k > content[l] THEN ctx
  ELSE LET r == PickRegister(ctx.pickIDs, l, k)
       IN LayerDrawFrom(l, k + 1,
            [ctx EXCEPT !.pickIDs = r.ids,
                        !.issued = Append(@, r.id),
                        !.pick = EmitPick(@, ctx.width, ctx.height, PixelOf(l, k), r.id)])

LayerDraw(l, ctx) == LayerDrawFrom(l, 1, [ctx EXCEPT !.log = Append(@, <<"layer", l>>)])

\* a loop that resets the Pick ID Manager before every layer
RECURSIVE DrawLayers_ClearEach(_, _)
DrawLayers_ClearEach(layers, ctx) ==
  IF layers = << >> THEN ctx
  ELSE DrawLayers_ClearEach(Tail(layers), LayerDraw(Head(layers), [ctx EXCEPT !.pickIDs = PickClear]))

\* a loop that draws the visible layers last to first
RECURSIVE DrawLayers_Reversed(_, _)
DrawLayers_Reversed(layers, ctx) ==
  IF layers = << >> THEN ctx
  ELSE LayerDraw(Head(layers), DrawLayers_Reversed(Tail(layers), ctx))

\* for (let renderLayer of visibleLayers) renderLayer.draw(renderContext)
RECURSIVE DrawLayers(_, _)
DrawLayers(layers, ctx) ==
  IF layers = << >> THEN ctx
  ELSE DrawLayers(Tail(layers), LayerDraw(Head(layers), ctx))

\* pixels the axis lines cover: the row through the centre of the target
AxisPixels == {<<1, 1>>, <<2, 1>>}

\* axesLineHelper.draw(mat): the lines are written to the attachments selected
\* as draw buffers; their shader gives no pick value, so a selected pick
\* attachment loses what it held under the lines
AxesLineDraw(ctx) ==
  IF "pick" \in ctx.drawBuffers
  THEN [ctx EXCEPT !.pick = [p \in Pixels |-> IF p \in AxisPixels THEN 0 ELSE @[p]],
                   !.log = Append(@, <<"axes", 0>>)]
  ELSE [ctx EXCEPT !.log = Append(@, <<"axes", 0>>)]

\* an axis overlay drawn without selecting the colour attachment
DrawAxes_AllBuffers(on, ctx) ==
  IF on THEN AxesLineDraw(ctx) ELSE ctx

\* the axis overlay, for showAxisLines.value = on:
\* drawBuffersWEBGL([COLOR_ATTACHMENT0]) selects the colour attachment alone,
\* then the axis lines are drawn
DrawAxes(on, ctx) ==
  IF on THEN AxesLineDraw([ctx EXCEPT !.drawBuffers = {"color"}]) ELSE ctx

\* a frame whose clear leaves the pick attachment as the frame before left it
FrameWith_KeepsPick(ids0, on) ==
  LET w == sliceView.width
      h == sliceView.height
      f1 == OffscreenBind(fb, w, h)
      ctx0 == [pickIDs |-> ids0, issued |-> << >>, pick |-> f1.pick,
               width |-> w, height |-> h, drawBuffers |-> {"color", "pick"},
               log |-> <<<<"updateRendering", 0>>, <<"bind", 0>>, <<"clear", 0>>,
                         <<"background", 0>>, <<"pickClear", 0>>>>]
      ctx1 == DrawAxes(on, DrawLayers(visibleLayers, ctx0))
  IN [fb |-> [f1 EXCEPT !.pick = ctx1.pick],
      pickIDs |-> ctx1.pickIDs,
      frameIDs |-> ctx1.issued,
      scaleBar |-> [targetLengthInPixels |-> Min(w \div 4, 100),
                    nanometersPerPixel |-> sliceView.pixelSize],
      log |-> ctx1.log \o <<<<"unbind", 0>>, <<"blit", 0>>, <<"scaleBar", 0>>>>]

\* the frame drawn with starting pick mapping ids0 and the axis overlay on or off
FrameWith(ids0, on) ==
  LET w == sliceView.width
      h == sliceView.height
      f1 == [OffscreenBind(fb, w, h) EXCEPT !.pick = BlankPick]
      ctx0 == [pickIDs |-> ids0, issued |-> << >>, pick |-> f1.pick,
               width |-> w, height |-> h, drawBuffers |-> {"color", "pick"},
               log |-> <<<<"updateRendering", 0>>, <<"bind", 0>>, <<"clear", 0>>,
                         <<"background", 0>>, <<"pickClear", 0>>>>]
      ctx1 == DrawAxes(on, DrawLayers(visibleLayers, ctx0))
  IN [fb |-> [f1 EXCEPT !.pick = ctx1.pick],
      pickIDs |-> ctx1.pickIDs,
      frameIDs |-> ctx1.issued,
      scaleBar |-> [targetLengthInPixels |-> Min(w \div 4, 100),
                    nanometersPerPixel |-> sliceView.pixelSize],
      log |-> ctx1.log \o <<<<"unbind", 0>>, <<"blit", 0>>, <<"scaleBar", 0>>>>]

\* the frame drawn with starting pick mapping ids0
FrameFrom(ids0) == FrameWith(ids0, showAxisLines)

\* a draw() that forgets pickIDs.clear()
DrawFrame_NoClear == FrameFrom(pickIDs)

\* the body of draw() once the viewport is known to be valid
DrawFrame == FrameFrom(PickClear)

\* draw() returning at once
DrawNothing ==
  [fb |-> fb, pickIDs |-> pickIDs, frameIDs |-> frameIDs, scaleBar |-> scaleBar,
   log |-> << >>]

\* a draw() without the validity guard
DrawResult_NoGuard == DrawFrame

DrawResult == IF ~HasValidViewport(sliceView) THEN DrawNothing ELSE DrawFrame

\* the record of a handler that returned nothing and called nothing.
\* rotations lists the rotateAbsolute calls made, as <<axis, degrees, anchor>>;
\* sizeChanged tells of an onResize whether it changed the viewport size, and
\* of an updateMouseState whether it was the first call after such an onResize
NoCall(op) == [op |-> op, ret |-> FALSE, pickRead |-> FALSE, pickValue |-> 0,
               redrawCalls |-> 0, factor |-> <<1, 1>>, positionChanged |-> 0,
               delta |-> <<0, 0>>, rotations |-> << >>, sizeChanged |-> FALSE]

\* a draw() that builds the axis-overlay matrix in the viewport's own
\* transform instead of a copy, stripping its translation
Draw_OverlayMatrixInPlace ==
  /\ fb' = DrawResult.fb
  /\ pickIDs' = DrawResult.pickIDs
  /\ frameIDs' = DrawResult.frameIDs
  /\ everIssued' = everIssued \cup Range(DrawResult.frameIDs)
  /\ scaleBar' = DrawResult.scaleBar
  /\ drawLog' = DrawResult.log
  /\ redrawPending' = FALSE
  /\ last' = NoCall("draw")
  /\ sliceView' = IF HasValidViewport(sliceView) /\ showAxisLines
                  THEN [sliceView EXCEPT !.center = Zero3] ELSE sliceView
  /\ UNCHANGED <<nav, visibleLayers, subs, content, showAxisLines, mouse,
                 mouseState, drag>>

\* the display context runs the panel's draw()
Draw ==
  /\ fb' = DrawResult.fb
  /\ pickIDs' = DrawResult.pickIDs
  /\ frameIDs' = DrawResult.frameIDs
  /\ everIssued' = everIssued \cup Range(DrawResult.frameIDs)
  /\ scaleBar' = DrawResult.scaleBar
  /\ drawLog' = DrawResult.log
  /\ redrawPending' = FALSE
  /\ last' = NoCall("draw")
  /\ UNCHANGED <<sliceView, nav, visibleLayers, subs, content, showAxisLines, mouse,
                 mouseState, drag>>

-----------------------------------------------------------------------------
(* onResize() and updateMouseState() *)

\* an onResize that also gives the offscreen target the new size
OnResize_ResizesTarget(size) ==
  /\ sliceView' = SetViewportSize(sliceView, size[1], size[2])
  /\ fb' = OffscreenBind(fb, size[1], size[2])
  /\ last' = [NoCall("onResize") EXCEPT
                !.sizeChanged = (<<sliceView.width, sliceView.height>> # size)]
  /\ UNCHANGED <<nav, pickIDs, visibleLayers, subs, content, showAxisLines, mouse,
                 mouseState, scaleBar, redrawPending, drag, drawLog, frameIDs,
                 everIssued>>

\* this.sliceView.setViewportSize(element.clientWidth, element.clientHeight)
OnResize(size) ==
  /\ sliceView' = SetViewportSize(sliceView, size[1], size[2])
  /\ last' = [NoCall("onResize") EXCEPT
                !.sizeChanged = (<<sliceView.width, sliceView.height>> # size)]
  /\ UNCHANGED <<nav, fb, pickIDs, visibleLayers, subs, content, showAxisLines, mouse,
                 mouseState, scaleBar, redrawPending, drag, drawLog, frameIDs,
                 everIssued>>

MouseFailure ==
  [ret |-> FALSE, ms |-> [mouseState EXCEPT !.pickedRenderLayer = None],
   read |-> FALSE, value |-> 0]

\* the hit test proper: position from the cursor, pick value through the manager
MouseHit ==
  LET w == sliceView.width
      h == sliceView.height
      out == ViewportToData(sliceView, <<mouse[1] - w \div 2, mouse[2] - h \div 2, 0>>)
      v == OffscreenReadPick(fb, mouse[1], h - mouse[2])
  IN [ret |-> TRUE,
      ms |-> PickSetMouseState(pickIDs,
               [mouseState EXCEPT !.pickedRenderLayer = None, !.position = out], v),
      read |-> TRUE, value |-> v]

\* an updateMouseState without the stale-buffer guard
UpdateMouseStateResult_NoSizeGuard ==
  IF ~HasValidViewport(sliceView) THEN MouseFailure ELSE MouseHit

\* an updateMouseState that computes the position before the stale-buffer guard
UpdateMouseStateResult_EarlyPosition ==
  IF ~HasValidViewport(sliceView) THEN MouseFailure
  ELSE IF ~OffscreenHasSize(fb, sliceView.width, sliceView.height)
       THEN [MouseFailure EXCEPT !.ms = [MouseHit.ms EXCEPT !.pickedRenderLayer = None,
                                                           !.pickedValue = mouseState.pickedValue]]
       ELSE MouseHit

UpdateMouseStateResult ==
  IF ~HasValidViewport(sliceView) THEN MouseFailure
  ELSE IF ~OffscreenHasSize(fb, sliceView.width, sliceView.height) THEN MouseFailure
       ELSE MouseHit

UpdateMouseState ==
  /\ mouseState' = UpdateMouseStateResult.ms
  /\ last' = [NoCall("updateMouseState") EXCEPT
                !.sizeChanged = (last.op = "onResize" /\ last.sizeChanged),
                !.ret = UpdateMouseStateResult.ret,
                !.pickRead = UpdateMouseStateResult.read,
                !.pickValue = UpdateMouseStateResult.value]
  /\ UNCHANGED <<sliceView, nav, fb, pickIDs, visibleLayers, subs, content,
                 showAxisLines, mouse, scaleBar, redrawPending, drag, drawLog,
                 frameIDs, everIssued>>

-----------------------------------------------------------------------------
(* The visible-layer tracker and the redraw notifications *)

\* Signal.add(listener, context) and Signal.remove(listener, context), on the
\* number of bindings of scheduleRedraw a signal holds
SignalAdd(n) == n + 1
SignalRemove(n) == IF n > 0 THEN n - 1 ELSE 0

\* an attach callback that schedules no redraw
LayerAdded_NoSchedule(l) == [subs |-> [subs EXCEPT ![l] = SignalAdd(@)], redrawCalls |-> 0]

\* layer => { layer.redrawNeeded.add(this.scheduleRedraw, this); this.scheduleRedraw(); }
LayerAdded(l) == [subs |-> [subs EXCEPT ![l] = SignalAdd(@)], redrawCalls |-> 1]

\* a detach callback that leaves the binding in place
LayerRemoved_NoRemove(l) == [subs |-> subs, redrawCalls |-> 1]

\* layer => { layer.redrawNeeded.remove(this.scheduleRedraw, this); this.scheduleRedraw(); }
LayerRemoved(l) == [subs |-> [subs EXCEPT ![l] = SignalRemove(@)], redrawCalls |-> 1]

\* the panel's scheduleRedraw(), called n times
ScheduleRedraw(pending, n) == pending \/ n > 0

\* the tracker sees layer l become visible
AttachLayer(l) ==
  /\ l \notin Range(visibleLayers)
  /\ visibleLayers' = Append(visibleLayers, l)
  /\ subs' = LayerAdded(l).subs
  /\ redrawPending' = ScheduleRedraw(redrawPending, LayerAdded(l).redrawCalls)
  /\ last' = [NoCall("attach") EXCEPT !.redrawCalls = LayerAdded(l).redrawCalls]
  /\ UNCHANGED <<sliceView, nav, fb, pickIDs, content, showAxisLines, mouse, mouseState,
                 scaleBar, drag, drawLog, frameIDs, everIssued>>

\* the tracker sees layer l stop being visible
DetachLayer(l) ==
  /\ l \in Range(visibleLayers)
  /\ visibleLayers' = SelectSeq(visibleLayers, LAMBDA x : x # l)
  /\ subs' = LayerRemoved(l).subs
  /\ redrawPending' = ScheduleRedraw(redrawPending, LayerRemoved(l).redrawCalls)
  /\ last' = [NoCall("detach") EXCEPT !.redrawCalls = LayerRemoved(l).redrawCalls]
  /\ UNCHANGED <<sliceView, nav, fb, pickIDs, content, showAxisLines, mouse, mouseState,
                 scaleBar, drag, drawLog, frameIDs, everIssued>>

\* layer l changes what it shows and dispatches redrawNeeded: every binding of
\* scheduleRedraw on it is called
LayerRedrawNeeded(l, n) ==
  /\ n # content[l]
  /\ content' = [content EXCEPT ![l] = n]
  /\ redrawPending' = ScheduleRedraw(redrawPending, subs[l])
  /\ last' = [NoCall("redrawNeeded") EXCEPT !.redrawCalls = subs[l]]
  /\ UNCHANGED <<sliceView, nav, fb, pickIDs, visibleLayers, subs, showAxisLines, mouse,
                 mouseState, scaleBar, drag, drawLog, frameIDs, everIssued>>

\* a listener of showAxisLines.changed that draws at once
ToggleAxisLines_DrawsNow ==
  LET frame == IF ~HasValidViewport(sliceView) THEN DrawNothing
               ELSE FrameWith(PickClear, ~showAxisLines)
  IN /\ showAxisLines' = ~showAxisLines
     /\ fb' = frame.fb
     /\ pickIDs' = frame.pickIDs
     /\ frameIDs' = frame.frameIDs
     /\ everIssued' = everIssued \cup Range(frame.frameIDs)
     /\ scaleBar' = frame.scaleBar
     /\ drawLog' = frame.log
     /\ last' = NoCall("showAxisLines")
     /\ UNCHANGED <<sliceView, nav, visibleLayers, subs, content, mouse, mouseState,
                    redrawPending, drag>>

\* viewer.showAxisLines.changed.add(() => { this.scheduleRedraw(); })
ToggleAxisLines ==
  /\ showAxisLines' = ~showAxisLines
  /\ redrawPending' = ScheduleRedraw(redrawPending, 1)
  /\ last' = [NoCall("showAxisLines") EXCEPT !.redrawCalls = 1]
  /\ UNCHANGED <<sliceView, nav, fb, pickIDs, visibleLayers, subs, content, mouse,
                 mouseState, scaleBar, drag, drawLog, frameIDs, everIssued>>

\* sliceView.viewChanged.add(context.scheduleRedraw, context): the view
\* changed and the display context is asked for a redraw
ViewChanged ==
  /\ redrawPending' = ScheduleRedraw(redrawPending, 1)
  /\ last' = [NoCall("viewChanged") EXCEPT !.redrawCalls = 1]
  /\ UNCHANGED <<sliceView, nav, fb, pickIDs, visibleLayers, subs, content,
                 showAxisLines, mouse, mouseState, scaleBar, drag, drawLog, frameIDs,
                 everIssued>>

\* the animation frame the display context asked for when a redraw was
\* scheduled: the panel is drawn once
AnimationFrame ==
  /\ redrawPending
  /\ Draw

-----------------------------------------------------------------------------
(* The pointer and the navigation state becoming valid *)

\* cursor positions tried: the corner and the pixel of every object
\* (window rows run top to bottom, rows of the target bottom to top)
MousePts == {<<0, 0>>} \cup {<<PixelOf(l, k)[1], 2 - PixelOf(l, k)[2]>> : l \in Layers, k \in 1..MaxObj}

MouseMove(pt) ==
  /\ pt # mouse
  /\ mouse' = pt
  /\ last' = NoCall("mouseMove")
  /\ UNCHANGED <<sliceView, nav, fb, pickIDs, visibleLayers, subs, content,
                 showAxisLines, mouseState, scaleBar, redrawPending, drag, drawLog,
                 frameIDs, everIssued>>

\* the navigation state receives its first pose, with orientation o; the
\* viewport follows
NavigationReady(o) ==
  /\ ~nav.valid
  /\ nav' = [nav EXCEPT !.valid = TRUE, !.orientation = o]
  /\ sliceView' = UpdateViewportFromNavigationState(sliceView, nav')
  /\ last' = NoCall("navigationReady")
  /\ UNCHANGED <<fb, pickIDs, visibleLayers, subs, content, showAxisLines, mouse,
                 mouseState, scaleBar, redrawPending, drag, drawLog, frameIDs,
                 everIssued>>

-----------------------------------------------------------------------------
(* The panel after construction *)

\* no drag in progress.  Besides the callback's captured initialPosition a drag
\* records what the gesture has delivered while every callback came with the
\* rotate modifier and a horizontal delta (horizontalRotate): the orientation
\* at the start of the drag, the number of callbacks (0, 1, or 2 for
\* "several"), the last deltaX and the sum of the deltaX (in pixels, modulo a
\* full turn of 1440 pixels).
NoDrag == [active |-> FALSE, initialPosition |-> Zero3,
           startOrientation |-> <<AxisX, AxisY>>, callbacks |-> 0,
           lastDeltaX |-> 0, sumDeltaX |-> 0, horizontalRotate |-> TRUE]

InitCommon ==
  /\ sliceView = [width |-> 0, height |-> 0, hasViewportToData |-> FALSE,
                  viewportAxes |-> <<AxisX, AxisY>>, center |-> Zero3, pixelSize |-> 1]
  /\ nav = [valid |-> FALSE, position |-> Zero3, orientation |-> <<AxisX, AxisY>>,
            zoomFactor |-> 1]
  /\ fb = [width |-> 0, height |-> 0, pick |-> BlankPick]
  /\ pickIDs = << >>
  /\ showAxisLines = TRUE
  /\ mouse = <<0, 0>>
  /\ mouseState = [position |-> Zero3, pickedRenderLayer |-> None, pickedValue |-> 0]
  /\ scaleBar = [targetLengthInPixels |-> 0, nanometersPerPixel |-> 0]
  /\ drag = NoDrag
  /\ drawLog = << >>
  /\ frameIDs = << >>
  /\ everIssued = {}

\* every layer shows the same number of objects when the panel is built
Init ==
  /\ InitCommon
  /\ visibleLayers = << >>
  /\ subs = [l \in Layers |-> 0]
  /\ content \in {[l \in Layers |-> n] : n \in 1..MaxObj}
  /\ redrawPending = FALSE
  /\ last = NoCall("constructor")

\* the compositor: frames drawn while layers come and go and the element is
\* resized
Next ==
  \/ Draw
  \/ \E size \in ClientSizes : OnResize(size)
  \/ \E l \in Layers : AttachLayer(l)
  \/ \E l \in Layers : DetachLayer(l)
  \/ NavigationReady(<<AxisX, AxisY>>)
  \/ ToggleAxisLines

Spec == Init /\ [][Next]_vars

\* the layer tracker and the redraw notifications, before the viewport is set up
NextTracker ==
  \/ \E l \in Layers : AttachLayer(l)
  \/ \E l \in Layers : DetachLayer(l)
  \/ \E l \in Layers, n \in 0..MaxObj : LayerRedrawNeeded(l, n)
  \/ ToggleAxisLines
  \/ Draw

SpecTracker == Init /\ [][NextTracker]_vars

\* the hit test, started once every layer is attached, in the order of their
\* numbers and showing anything, and before the first frame
InitPick ==
  /\ InitCommon
  /\ visibleLayers = [i \in 1..NumLayers |-> i]
  /\ subs = [l \in Layers |-> 1]
  /\ content \in [Layers -> 0..MaxObj]
  /\ redrawPending = TRUE
  /\ last = [NoCall("attach") EXCEPT !.redrawCalls = 1]

NextPick ==
  \/ Draw
  \/ \E size \in ClientSizes : OnResize(size)
  \/ UpdateMouseState
  \/ \E pt \in MousePts : MouseMove(pt)
  \/ NavigationReady(<<AxisX, AxisY>>)

SpecPick == InitPick /\ [][NextPick]_vars

-----------------------------------------------------------------------------
(* Properties of the hit test (checked under SpecPick) *)

ViewportStale ==
  \/ ~HasValidViewport(sliceView)
  \/ fb.width # sliceView.width
  \/ fb.height # sliceView.height

\* C1: updateMouseState returns false whenever the viewport is invalid or the
\* offscreen target's size differs from the viewport size; otherwise it
\* returns true and, when the pick value read at the cursor pixel is nonzero,
\* the selection holds the layer and payload the Pick ID Manager resolves for
\* that value.
UpdateMouseStateContract ==
  last.op = "updateMouseState" =>
    /\ ViewportStale => ~last.ret
    /\ ~ViewportStale =>
         /\ last.ret
         /\ last.pickValue = OffscreenReadPick(fb, mouse[1], sliceView.height - mouse[2])
         /\ last.pickValue # 0 =>
              /\ mouseState.pickedRenderLayer # None
              /\ <<mouseState.pickedRenderLayer, mouseState.pickedValue>> = pickIDs[last.pickValue]

UpdateMouseStateHit ==
  /\ last.op = "updateMouseState" /\ last.ret /\ last.pickValue # 0
  /\ mouseState.pickedRenderLayer \in Layers

\* C2: when updateMouseState fails, the selection state changes only in that
\* the picked layer is cleared; position and picked value stay, and the pick
\* attachment is not read.
UpdateMouseStateFailureFrame ==
  [][(last'.op = "updateMouseState" /\ ~last'.ret) =>
       /\ mouseState' = [mouseState EXCEPT !.pickedRenderLayer = None]
       /\ ~last'.pickRead]_vars

UpdateMouseStateFailedAfterHit ==
  /\ last.op = "updateMouseState" /\ ~last.ret
  /\ mouseState.pickedRenderLayer = None
  /\ mouseState.pickedValue # 0
  /\ mouseState.position # Zero3

-----------------------------------------------------------------------------
(* Properties of draw() and of the Pick ID Manager (checked under Spec) *)

\* C3: with an invalid viewport draw() is a no-op: the offscreen target, the
\* pick mapping and the scale bar are left as they were, and no step of the
\* frame (bind, clear, layer draw, blit, scale-bar update) is performed.
DrawInvalidIsNoOp ==
  [][(last'.op = "draw" /\ ~HasValidViewport(sliceView)) =>
       /\ fb' = fb
       /\ pickIDs' = pickIDs
       /\ frameIDs' = frameIDs
       /\ scaleBar' = scaleBar
       /\ drawLog' = << >>]_vars

DrawSkippedAfterFrame ==
  /\ last.op = "draw" /\ ~HasValidViewport(sliceView)
  /\ drawLog = << >>
  /\ fb.width > 0 /\ pickIDs # << >>

\* C4: the pick IDs returned by register during one draw(), that is after its
\* clear(), are pairwise distinct and none of them is 0.
FrameIDsDistinctNonzero ==
  \A i, j \in 1..Len(frameIDs) :
    /\ frameIDs[i] # 0
    /\ i # j => frameIDs[i] # frameIDs[j]

TwoIDsInFrame == last.op = "draw" /\ Len(frameIDs) >= 2

\* C5: resolve(0) is "no object" in every state, and every ID issued before
\* the last clear() and not issued again since resolves to "no object".
StaleIDsResolveToNone ==
  /\ PickResolve(pickIDs, 0) = NoObject
  /\ \A id \in everIssued \ Range(frameIDs) : PickResolve(pickIDs, id) = NoObject

StaleIDAfterDraw ==
  /\ last.op = "draw" /\ drawLog # << >>
  /\ frameIDs # << >>
  /\ everIssued \ Range(frameIDs) # {}

-----------------------------------------------------------------------------
(* Properties of the visible-layer tracker (checked under SpecTracker) *)

\* C6: scheduleRedraw holds exactly one binding on redrawNeeded of every
\* attached layer and none on a detached layer, after any sequence of attach
\* and detach events.
OneSubscriptionPerAttachedLayer ==
  \A l \in Layers : subs[l] = IF l \in Range(visibleLayers) THEN 1 ELSE 0

DetachedWhileOtherAttached ==
  /\ last.op = "detach"
  /\ \E l \in Layers : l \notin Range(visibleLayers) /\ subs[l] = 0
  /\ \E l \in Layers : l \in Range(visibleLayers) /\ subs[l] = 1

\* C7: every attach and every detach calls scheduleRedraw exactly once.
AttachDetachScheduleOnce ==
  last.op \in {"attach", "detach"} => last.redrawCalls = 1

AttachScheduledRedraw ==
  /\ last.op = "attach" /\ last.redrawCalls = 1 /\ redrawPending
  /\ \E l \in Layers : l \in Range(visibleLayers) /\ content[l] > 0

-----------------------------------------------------------------------------
(* zoomByMouse() *)

\* zoom factors tried, as fractions <<numerator, denominator>>
Factors == {<<2, 1>>, <<3, 1>>, <<1, 2>>, <<1, 3>>}

\* orientations the navigation state may start with: <<axisU, axisV>>
StartOrientations == {<<AxisX, AxisY>>, <<AxisY, AxisZ>>, <<AxisZ, <<-1, 0, 0>>>>}

InBox(p) == \A i \in 1..3 : p[i] \in -MaxCoord..MaxCoord

\* navigationState.zoomBy(factor): the zoom factor is multiplied by the factor
NavZoomBy(n, f) == [n EXCEPT !.zoomFactor = (@ * f[1]) \div f[2]]

\* the factor leaves a whole zoom factor within the bound
ZoomRepresentable(z, f) == (z * f[1]) % f[2] = 0 /\ (z * f[1]) \div f[2] \in 1..MaxZoom

\* the rest of zoomByMouse, with cursor offset <<mx, my>>
ZoomAbout(f, mx, my) ==
  LET oldZoom == nav.zoomFactor
      n1 == NavZoomBy(nav, f)
      sv1 == UpdateViewportFromNavigationState(sliceView, n1)
      newZoom == n1.zoomFactor
      p1 == VScaleAndAdd(n1.position, sv1.viewportAxes[1], mx * (oldZoom - newZoom))
      p2 == VScaleAndAdd(p1, sv1.viewportAxes[2], my * (oldZoom - newZoom))
      n2 == [n1 EXCEPT !.position = p2]
  IN [nav |-> n2, sliceView |-> UpdateViewportFromNavigationState(sv1, n2),
      positionChanged |-> 1]

\* a zoomByMouse that takes the cursor position for the offset from the centre
ZoomByMouseResult_NoCentre(f) ==
  IF ~nav.valid THEN [nav |-> nav, sliceView |-> sliceView, positionChanged |-> 0]
  ELSE ZoomAbout(f, mouse[1], mouse[2])

\* a zoomByMouse without the validity guard
ZoomByMouseResult_NoGuard(f) ==
  ZoomAbout(f, mouse[1] - sliceView.width \div 2, mouse[2] - sliceView.height \div 2)

ZoomByMouseResult(f) ==
  IF ~nav.valid THEN [nav |-> nav, sliceView |-> sliceView, positionChanged |-> 0]
  ELSE ZoomAbout(f, mouse[1] - sliceView.width \div 2, mouse[2] - sliceView.height \div 2)

ZoomByMouse(f) ==
  /\ ZoomRepresentable(nav.zoomFactor, f)
  /\ InBox(ZoomByMouseResult(f).nav.position)
  /\ nav' = ZoomByMouseResult(f).nav
  /\ sliceView' = ZoomByMouseResult(f).sliceView
  /\ last' = [NoCall("zoomByMouse") EXCEPT
                !.factor = f,
                !.positionChanged = ZoomByMouseResult(f).positionChanged]
  /\ UNCHANGED <<fb, pickIDs, visibleLayers, subs, content, showAxisLines, mouse,
                 mouseState, scaleBar, redrawPending, drag, drawLog, frameIDs,
                 everIssued>>

\* cursor positions of a zoom: corners and pixels left and right of the centre
ZoomMousePts == {<<0, 0>>, <<6, 2>>, <<1, 1>>, <<4, 1>>, <<5, 1>>}

\* zooming about the cursor, for every starting orientation and viewport size
NextZoom ==
  \/ \E f \in Factors : ZoomByMouse(f)
  \/ \E pt \in ZoomMousePts : MouseMove(pt)
  \/ \E size \in ClientSizes : OnResize(size)
  \/ \E o \in StartOrientations : NavigationReady(o)

SpecZoom == Init /\ [][NextZoom]_vars

\* positions another mutator of the shared navigation state moves to
ExternalTargets == {AxisX, AxisY, AxisZ}

\* another mutator of the navigation state sets the position and dispatches
\* position.changed; the viewport follows
ExternalMove(p) ==
  /\ nav.valid
  /\ p # nav.position
  /\ nav' = [nav EXCEPT !.position = p]
  /\ sliceView' = UpdateViewportFromNavigationState(sliceView, nav')
  /\ last' = NoCall("externalMove")
  /\ UNCHANGED <<fb, pickIDs, visibleLayers, subs, content, showAxisLines, mouse,
                 mouseState, scaleBar, redrawPending, drag, drawLog, frameIDs,
                 everIssued>>

-----------------------------------------------------------------------------
(* Properties of zoomByMouse (checked under SpecZoom) *)

\* the data point shown at offset <<mx, my>> from the centre, for position p,
\* in-plane axes u, v and zoom z
PointAt(p, u, v, mx, my, z) == VAdd(p, VScale(VAdd(VScale(u, mx), VScale(v, my)), z))

\* C8: with a valid navigation state zoomByMouse(f) sets the zoom to
\* oldZoom * f and moves the position by
\* axisU*mx*(oldZoom-newZoom) + axisV*my*(oldZoom-newZoom), so the data point
\* under the cursor pixel is the same before and after the call.
ZoomByMouseKeepsPivot ==
  [][(last'.op = "zoomByMouse" /\ nav.valid) =>
       LET mx == mouse[1] - sliceView.width \div 2
           my == mouse[2] - sliceView.height \div 2
           u == sliceView.viewportAxes[1]
           v == sliceView.viewportAxes[2]
           oldZoom == nav.zoomFactor
           newZoom == nav'.zoomFactor
       IN /\ newZoom * last'.factor[2] = oldZoom * last'.factor[1]
          /\ nav'.position =
               VAdd(nav.position,
                    VAdd(VScale(u, mx * (oldZoom - newZoom)),
                         VScale(v, my * (oldZoom - newZoom))))
          /\ PointAt(nav'.position, u, v, mx, my, newZoom)
               = PointAt(nav.position, u, v, mx, my, oldZoom)
          /\ ViewportToData(sliceView', <<mx, my, 0>>)
               = ViewportToData(sliceView, <<mx, my, 0>>)
          /\ last'.positionChanged = 1]_vars

\* zoom 1 -> 2 with the cursor at offset (2, 1) from the centre of the 8 x 2
\* viewport has shifted the position by -2*axisU - 1*axisV
ZoomedInOffCentre ==
  /\ last.op = "zoomByMouse" /\ last.factor = <<2, 1>> /\ nav.valid
  /\ nav.zoomFactor = 2
  /\ sliceView.width = 8 /\ mouse = <<6, 2>>
  /\ nav.position = VAdd(VScale(sliceView.viewportAxes[1], -2),
                         VScale(sliceView.viewportAxes[2], -1))

\* C9: zoomByMouse is a no-op while the navigation state is not valid: zoom
\* and position are unchanged and no position-changed notification is sent.
ZoomByMouseInvalidIsNoOp ==
  [][(last'.op = "zoomByMouse" /\ ~nav.valid) =>
       /\ nav' = nav
       /\ sliceView' = sliceView
       /\ last'.positionChanged = 0]_vars

ZoomIgnoredOffCentre ==
  /\ last.op = "zoomByMouse" /\ ~nav.valid
  /\ sliceView.width > 0
  /\ mouse[1] # sliceView.width \div 2

-----------------------------------------------------------------------------
(* onMousedown() and the drag callback *)

\* cosine and sine of a whole number of quarter turns, given in degrees
CosDeg(a) == CASE a % 360 = 0 -> 1 [] a % 360 = 180 -> -1 [] OTHER -> 0
SinDeg(a) == CASE a % 360 = 90 -> 1 [] a % 360 = 270 -> -1 [] OTHER -> 0

\* v turned by a degrees about the unit vector axis (Rodrigues' formula)
RotateVec(v, axis, a) ==
  VAdd(VAdd(VScale(v, CosDeg(a)), VScale(VCross(axis, v), SinDeg(a))),
       VScale(axis, VDot(axis, v) * (1 - CosDeg(a))))

\* pose.rotateAbsolute(axis, angle, fixedPoint): the rotation about an axis
\* given in data coordinates is applied on top of the current orientation, and
\* the position is moved so that fixedPoint keeps its place on screen
RotateAbsolute(n, axis, a, fixedPoint) ==
  [n EXCEPT !.orientation = <<RotateVec(@[1], axis, a), RotateVec(@[2], axis, a)>>,
            !.position = VAdd(fixedPoint, RotateVec(VSub(@, fixedPoint), axis, a))]

InDragBox(p) == \A i \in 1..3 : p[i] \in -MaxDragCoord..MaxDragCoord

\* deltas the drag gesture delivers: with the rotate modifier quarter and half
\* turns of horizontal travel and half turns of vertical travel (360 pixels
\* are a quarter turn at 4 pixels per degree), without it single pixels
RotateDeltas == {<<360, 0>>, <<720, 0>>, <<0, 720>>}
PanDeltas == {<<1, 0>>, <<0, 1>>, <<-1, -1>>}

\* a rotate branch anchored at the navigation position of the moment instead
\* of the position captured when the drag started
DragRotate_AnchorAtPosition(dx, dy) ==
  LET n1 == RotateAbsolute(nav, sliceView.viewportAxes[2], dx \div 4, nav.position)
      sv1 == UpdateViewportFromNavigationState(sliceView, n1)
      n2 == RotateAbsolute(n1, sv1.viewportAxes[1], dy \div 4, n1.position)
  IN [nav |-> n2, sliceView |-> UpdateViewportFromNavigationState(sv1, n2),
      positionChanged |-> 2,
      rotations |-> <<<<sliceView.viewportAxes[2], dx \div 4, nav.position>>,
                      <<sv1.viewportAxes[1], dy \div 4, n1.position>>>>]

\* a rotate branch that leaves out the second rotateAbsolute
DragRotate_SingleRotation(dx, dy) ==
  LET n1 == RotateAbsolute(nav, sliceView.viewportAxes[2], dx \div 4, drag.initialPosition)
  IN [nav |-> n1, sliceView |-> UpdateViewportFromNavigationState(sliceView, n1),
      positionChanged |-> 1,
      rotations |-> <<<<sliceView.viewportAxes[2], dx \div 4, drag.initialPosition>>>>]

\* if (event.shiftKey) { ... rotateAbsolute(viewportAxes[1], deltaX / 4 degrees,
\* initialPosition); rotateAbsolute(viewportAxes[0], deltaY / 4 degrees,
\* initialPosition) }.  The viewport follows each change of the pose.
DragRotate(dx, dy) ==
  LET n1 == RotateAbsolute(nav, sliceView.viewportAxes[2], dx \div 4, drag.initialPosition)
      sv1 == UpdateViewportFromNavigationState(sliceView, n1)
      n2 == RotateAbsolute(n1, sv1.viewportAxes[1], dy \div 4, drag.initialPosition)
  IN [nav |-> n2, sliceView |-> UpdateViewportFromNavigationState(sv1, n2),
      positionChanged |-> 2,
      rotations |-> <<<<sliceView.viewportAxes[2], dx \div 4, drag.initialPosition>>,
                      <<sv1.viewportAxes[1], dy \div 4, drag.initialPosition>>>>]

\* a pan branch that leaves out vec3.transformMat4
DragPan_NoTransform(dx, dy) ==
  LET n1 == [nav EXCEPT !.position = <<dx, dy, 0>>]
  IN [nav |-> n1, sliceView |-> UpdateViewportFromNavigationState(sliceView, n1),
      positionChanged |-> 1, rotations |-> << >>]

\* else { vec3.set(pos, deltaX, deltaY, 0); vec3.transformMat4(pos, pos,
\* viewportToData); position.changed.dispatch() }
DragPan(dx, dy) ==
  LET n1 == [nav EXCEPT !.position = ViewportToData(sliceView, <<dx, dy, 0>>)]
  IN [nav |-> n1, sliceView |-> UpdateViewportFromNavigationState(sliceView, n1),
      positionChanged |-> 1, rotations |-> << >>]

\* a callback that turns about the first in-plane axis for deltaX and about the
\* second for deltaY
DragCallbackResult_AxesSwapped(shiftKey, dx, dy) ==
  IF shiftKey
  THEN LET n1 == RotateAbsolute(nav, sliceView.viewportAxes[1], dx \div 4, drag.initialPosition)
           sv1 == UpdateViewportFromNavigationState(sliceView, n1)
           n2 == RotateAbsolute(n1, sv1.viewportAxes[2], dy \div 4, drag.initialPosition)
       IN [nav |-> n2, sliceView |-> UpdateViewportFromNavigationState(sv1, n2),
           positionChanged |-> 2,
           rotations |-> <<<<sliceView.viewportAxes[1], dx \div 4, drag.initialPosition>>,
                           <<sv1.viewportAxes[2], dy \div 4, drag.initialPosition>>>>]
  ELSE DragPan(dx, dy)

\* the callback handed to startRelativeMouseDrag
DragCallbackResult(shiftKey, dx, dy) ==
  IF shiftKey THEN DragRotate(dx, dy) ELSE DragPan(dx, dy)

\* what the drag has delivered, after one more callback
DragRecord(shiftKey, dx, dy) ==
  IF shiftKey /\ dy = 0 /\ drag.horizontalRotate
  THEN [drag EXCEPT !.callbacks = Min(@ + 1, 2),
                    !.lastDeltaX = dx,
                    !.sumDeltaX = (@ + dx) % 1440]
  ELSE [drag EXCEPT !.callbacks = 0,
                    !.startOrientation = <<AxisX, AxisY>>,
                    !.lastDeltaX = 0,
                    !.sumDeltaX = 0,
                    !.horizontalRotate = FALSE]

DragCallback(shiftKey, dx, dy) ==
  /\ drag.active
  /\ InDragBox(DragCallbackResult(shiftKey, dx, dy).nav.position)
  /\ nav' = DragCallbackResult(shiftKey, dx, dy).nav
  /\ sliceView' = DragCallbackResult(shiftKey, dx, dy).sliceView
  /\ drag' = DragRecord(shiftKey, dx, dy)
  /\ last' = [NoCall(IF shiftKey THEN "dragRotate" ELSE "dragPan") EXCEPT
                !.positionChanged = DragCallbackResult(shiftKey, dx, dy).positionChanged,
                !.delta = <<dx, dy>>,
                !.rotations = DragCallbackResult(shiftKey, dx, dy).rotations]
  /\ UNCHANGED <<fb, pickIDs, visibleLayers, subs, content, showAxisLines, mouse,
                 mouseState, scaleBar, redrawPending, drawLog, frameIDs, everIssued>>

\* the button is released: the drag's callback is unregistered
DragEnd ==
  /\ drag.active
  /\ drag' = NoDrag
  /\ last' = NoCall("mouseup")
  /\ UNCHANGED <<sliceView, nav, fb, pickIDs, visibleLayers, subs, content,
                 showAxisLines, mouse, mouseState, scaleBar, redrawPending, drawLog,
                 frameIDs, everIssued>>

\* an onMousedown that starts the drag on any button
OnMousedownResult_AnyButton(onElement, button) ==
  IF ~onElement THEN [ms |-> mouseState, started |-> FALSE]
  ELSE IF ~HasValidViewport(sliceView) THEN [ms |-> mouseState, started |-> FALSE]
  ELSE [ms |-> UpdateMouseStateResult.ms, started |-> UpdateMouseStateResult.ret]

\* onMousedown(e) on the panel's element (onElement) or elsewhere, with e.button
OnMousedownResult(onElement, button) ==
  IF ~onElement THEN [ms |-> mouseState, started |-> FALSE]
  ELSE IF ~HasValidViewport(sliceView) THEN [ms |-> mouseState, started |-> FALSE]
  ELSE IF button # 0 THEN [ms |-> mouseState, started |-> FALSE]
  ELSE [ms |-> UpdateMouseStateResult.ms, started |-> UpdateMouseStateResult.ret]

OnMousedown(onElement, button) ==
  /\ ~drag.active
  /\ mouseState' = OnMousedownResult(onElement, button).ms
  /\ drag' = IF OnMousedownResult(onElement, button).started
             THEN [NoDrag EXCEPT !.active = TRUE,
                                 !.initialPosition = OnMousedownResult(onElement, button).ms.position,
                                 !.startOrientation = nav.orientation]
             ELSE drag
  /\ last' = [NoCall("mousedown") EXCEPT !.ret = OnMousedownResult(onElement, button).started]
  /\ UNCHANGED <<sliceView, nav, fb, pickIDs, visibleLayers, subs, content,
                 showAxisLines, mouse, scaleBar, redrawPending, drawLog, frameIDs,
                 everIssued>>

\* cursor positions of a drag in the 4 x 2 viewport: its centre and the pixel
\* to the left of it
DragMousePts == {<<2, 1>>, <<1, 1>>}

\* dragging with the rotate modifier held, in a 4 x 2 viewport
NextDrag ==
  \/ OnResize(<<4, 2>>)
  \/ NavigationReady(<<AxisX, AxisY>>)
  \/ Draw
  \/ \E pt \in DragMousePts : MouseMove(pt)
  \/ \E onElement \in BOOLEAN, button \in {0, 2} : OnMousedown(onElement, button)
  \/ \E d \in RotateDeltas : DragCallback(TRUE, d[1], d[2])
  \/ DragEnd

SpecDrag == Init /\ [][NextDrag]_vars

\* the orientation o turned about its second in-plane axis (axis V) by the
\* angle that px pixels of horizontal travel stand for (4 pixels per degree)
TurnedAboutV(o, px) == <<RotateVec(o[1], o[2], px \div 4), o[2]>>

RotateCallbackTurnsFirstAxisByDeltaX ==
  [][last'.op = "dragRotate" =>
       /\ Len(last'.rotations) = 2
       /\ last'.rotations[1] =
            <<sliceView.viewportAxes[1], last'.delta[1] \div 4, drag.initialPosition>>
       /\ last'.rotations[2] =
            <<sliceView'.viewportAxes[2], last'.delta[2] \div 4, drag.initialPosition>>]_vars

\* C11: every rotate callback of a drag issues exactly two rotations with the
\* anchor captured at the start of the drag: the first about the viewport's
\* second in-plane axis (viewportAxes[1] in the code) by deltaX / 4 degrees,
\* the second about its first in-plane axis (viewportAxes[0]) by deltaY / 4
\* degrees, for the deltas delivered to that callback
RotateCallbackTurnsSecondAxisByDeltaX ==
  [][last'.op = "dragRotate" =>
       /\ Len(last'.rotations) = 2
       /\ last'.rotations[1] =
            <<sliceView.viewportAxes[2], last'.delta[1] \div 4, drag.initialPosition>>
       /\ last'.rotations[2] =
            <<sliceView'.viewportAxes[1], last'.delta[2] \div 4, drag.initialPosition>>]_vars

\* a horizontal rotate callback of a drag started away from the centre, in a
\* view that has been turned before
HorizontalRotateCallback ==
  /\ last.op = "dragRotate" /\ last.delta = <<360, 0>>
  /\ Len(last.rotations) = 2
  /\ drag.active /\ drag.initialPosition # nav.position
  /\ ~drag.horizontalRotate

-----------------------------------------------------------------------------
(* Panning (checked under SpecPan) *)

\* dragging without the rotate modifier in a 4 x 2 viewport, for every starting
\* orientation, while another mutator moves the position
NextPan ==
  \/ OnResize(<<4, 2>>)
  \/ \E o \in StartOrientations : NavigationReady(o)
  \/ Draw
  \/ \E onElement \in BOOLEAN, button \in {0, 2} : OnMousedown(onElement, button)
  \/ \E d \in PanDeltas : DragCallback(FALSE, d[1], d[2])
  \/ \E p \in ExternalTargets : ExternalMove(p)
  \/ DragEnd

SpecPan == Init /\ [][NextPan]_vars

-----------------------------------------------------------------------------
(* Properties of the frame (checked under Spec) *)

\* positions of the steps named kind in the log of the last draw()
StepsAt(kind) == {i \in 1..Len(drawLog) : drawLog[i][1] = kind}

\* every step named a comes before every step named b
StepsBefore(a, b) == \A i \in StepsAt(a), j \in StepsAt(b) : i < j

IsLayerStep(e) == e[1] = "layer"

\* C13: an effective draw() binds the target, clears it, resets the Pick ID
\* Manager, draws every visible layer in the tracker's order, draws the axis
\* overlay (when enabled) after all layers, unbinds, blits and updates the
\* scale bar, each of these once and in this order; layers and overlay are
\* drawn between bind and unbind, and nothing follows the scale-bar update
DrawStepsInOrder ==
  (last.op = "draw" /\ drawLog # << >>) =>
    /\ \A k \in {"bind", "clear", "pickClear", "unbind", "blit", "scaleBar"} :
         Cardinality(StepsAt(k)) = 1
    /\ Cardinality(StepsAt("axes")) = IF showAxisLines THEN 1 ELSE 0
    /\ StepsBefore("bind", "clear") /\ StepsBefore("clear", "pickClear")
    /\ StepsBefore("pickClear", "layer") /\ StepsBefore("pickClear", "axes")
    /\ StepsBefore("layer", "axes")
    /\ StepsBefore("layer", "unbind") /\ StepsBefore("axes", "unbind")
    /\ StepsBefore("pickClear", "unbind")
    /\ StepsBefore("unbind", "blit") /\ StepsBefore("blit", "scaleBar")
    /\ drawLog[Len(drawLog)][1] = "scaleBar"
    /\ SelectSeq(drawLog, IsLayerStep)
         = [i \in 1..Len(visibleLayers) |-> <<"layer", visibleLayers[i]>>]

\* a frame with the axis overlay drawn after the second layer had been
\* attached before the first
FrameOfReattachedLayers ==
  /\ last.op = "draw" /\ drawLog # << >>
  /\ showAxisLines
  /\ visibleLayers = <<2, 1>>
  /\ Len(frameIDs) = 2

\* C14: after an effective draw() the pick attachment and the pick mapping are
\* those of the same frame drawn without the axis overlay: the overlay
\* changes no pick value and registers no pick ID
AxesLeavePickUntouched ==
  (last.op = "draw" /\ drawLog # << >>) =>
    /\ fb.pick = FrameWith(PickClear, FALSE).fb.pick
    /\ pickIDs = FrameWith(PickClear, FALSE).pickIDs
    /\ frameIDs = FrameWith(PickClear, FALSE).frameIDs

\* a frame whose axis lines cross a pixel an object is painted at
AxesDrawnOverObject ==
  /\ last.op = "draw" /\ showAxisLines
  /\ StepsAt("axes") # {}
  /\ \E p \in AxisPixels : fb.pick[p] # 0

-----------------------------------------------------------------------------
(* Scheduling of redraws (checked under SpecRedraw) *)

\* the panel once the navigation state is valid and the element has been
\* sized 4 x 2, before any layer is attached and any frame is drawn
InitRedraw ==
  /\ sliceView = [width |-> 4, height |-> 2, hasViewportToData |-> TRUE,
                  viewportAxes |-> <<AxisX, AxisY>>, center |-> Zero3, pixelSize |-> 1]
  /\ nav = [valid |-> TRUE, position |-> Zero3, orientation |-> <<AxisX, AxisY>>,
            zoomFactor |-> 1]
  /\ fb = [width |-> 0, height |-> 0, pick |-> BlankPick]
  /\ pickIDs = << >>
  /\ showAxisLines = TRUE
  /\ mouse = <<0, 0>>
  /\ mouseState = [position |-> Zero3, pickedRenderLayer |-> None, pickedValue |-> 0]
  /\ scaleBar = [targetLengthInPixels |-> 0, nanometersPerPixel |-> 0]
  /\ drag = NoDrag
  /\ drawLog = << >>
  /\ frameIDs = << >>
  /\ everIssued = {}
  /\ visibleLayers = << >>
  /\ subs = [l \in Layers |-> 0]
  /\ content \in {[l \in Layers |-> n] : n \in 1..MaxObj}
  /\ redrawPending = FALSE
  /\ last = NoCall("onResize")

\* invalidation signals and the animation frames that answer them: the first
\* layer comes and goes and changes what it shows, the axis lines are toggled,
\* the view changes; an animation frame that was asked for does come
NextRedraw ==
  \/ AttachLayer(1)
  \/ DetachLayer(1)
  \/ \E n \in 0..1 : LayerRedrawNeeded(1, n)
  \/ ToggleAxisLines
  \/ ViewChanged
  \/ AnimationFrame

SpecRedraw == InitRedraw /\ [][NextRedraw]_vars /\ WF_vars(AnimationFrame)

\* the handlers of invalidation signals
NotificationOps == {"attach", "detach", "showAxisLines", "viewChanged"}

\* what a step must satisfy for redraws to be coalesced
CoalescedStep ==
  /\ (last'.op \in NotificationOps \/ last'.redrawCalls > 0) =>
       (redrawPending' /\ UNCHANGED renderVars)
  /\ (redrawPending /\ last'.op # "draw") => redrawPending'
  /\ (last'.op = "draw") => (redrawPending /\ ~redrawPending')

\* C15: a handler of an invalidation signal draws nothing itself and leaves a
\* redraw scheduled; a scheduled redraw stays scheduled, however many signals
\* follow, until draw() runs; draw() runs only when a redraw is scheduled and
\* answers all signals received so far; and a scheduled redraw is drawn
\* eventually
RedrawsCoalesced ==
  /\ [][CoalescedStep]_vars
  /\ (redrawPending ~> (last.op = "draw" /\ ~redrawPending))

\* a frame with an object in it, drawn after a layer was attached and the axis
\* lines were toggled, and answering every signal so far
FrameAnsweringSeveralSignals ==
  /\ last.op = "draw" /\ ~redrawPending
  /\ drawLog # << >>
  /\ visibleLayers = <<1>> /\ ~showAxisLines
  /\ frameIDs # << >>
  /\ everIssued = Range(frameIDs)

-----------------------------------------------------------------------------
(* Resizing and the hit test (checked under SpecPick) *)

\* C16 as stated: onResize forwards the size and leaves the offscreen target
\* alone, and an updateMouseState that follows an onResize which changed the
\* viewport size, with no draw() in between, returns false
HitTestFailsAfterResize ==
  (last.op = "updateMouseState" /\ last.sizeChanged) => ~last.ret

\* what a step does to the size of the offscreen target, and what
\* updateMouseState answers
ResizeStep ==
  /\ (last'.op = "onResize") => (fb' = fb /\ pickIDs' = pickIDs)
  /\ (last'.op # "draw" \/ ~HasValidViewport(sliceView)) => fb' = fb
  /\ (last'.op = "draw" /\ HasValidViewport(sliceView)) =>
       (fb'.width = sliceView.width /\ fb'.height = sliceView.height)
  /\ (last'.op = "updateMouseState") =>
       (last'.ret = (/\ HasValidViewport(sliceView)
                     /\ fb.width = sliceView.width
                     /\ fb.height = sliceView.height))

\* C16: onResize only forwards the new size to the viewport; the offscreen
\* target changes size in an effective draw() and nowhere else, and takes the
\* viewport size there.  updateMouseState returns false exactly while the
\* viewport is invalid or its size differs from the size of the target, that
\* is of the last effective draw(): after an onResize back to that size it
\* returns true without any draw()
HitTestFollowsTargetSize == [][ResizeStep]_vars

\* the hit test succeeds right after an onResize that changed the viewport
\* size: the element was resized back to the size of the last frame
HitTestSucceedsAfterResizeBack ==
  /\ last.op = "updateMouseState" /\ last.sizeChanged /\ last.ret
  /\ fb.width = sliceView.width /\ fb.width > 0

-----------------------------------------------------------------------------
(* draw() and the view (checked under SpecView) *)

\* frames drawn while the element is resized, the axis lines are toggled, the
\* navigation state becomes valid with any orientation and its position is
\* moved
NextView ==
  \/ Draw
  \/ ToggleAxisLines
  \/ \E size \in ClientSizes : OnResize(size)
  \/ \E o \in StartOrientations : NavigationReady(o)
  \/ \E p \in ExternalTargets : ExternalMove(p)

SpecView == Init /\ [][NextView]_vars

\* C17: draw() leaves the viewport (size, transform, axes, validity) and the
\* navigation state (position, orientation, zoom) as they were, with a valid
\* viewport or not and with the axis lines on or off
DrawLeavesViewAlone ==
  [][(last'.op = "draw") => (sliceView' = sliceView /\ nav' = nav)]_vars

\* an effective frame with the axis overlay, drawn after the position was
\* moved away from the origin in a turned view
FrameDrawnAwayFromOrigin ==
  /\ last.op = "draw" /\ drawLog # << >>
  /\ StepsAt("axes") # {}
  /\ nav.position # Zero3 /\ sliceView.center = nav.position
  /\ nav.orientation # <<AxisX, AxisY>>

-----------------------------------------------------------------------------
(* The anchor of a drag (checked under SpecAnchor) *)

\* deltas of a drag that turns and pans in turns: quarter turns of horizontal
\* travel with the rotate modifier, single pixels along the first axis without
AnchorRotateDeltas == {<<360, 0>>}
AnchorPanDeltas == {<<1, 0>>, <<-1, 0>>}

\* drags whose callbacks come with and without the rotate modifier, in a 4 x 2
\* viewport
NextAnchor ==
  \/ OnResize(<<4, 2>>)
  \/ NavigationReady(<<AxisX, AxisY>>)
  \/ Draw
  \/ \E pt \in DragMousePts : MouseMove(pt)
  \/ \E onElement \in BOOLEAN, button \in {0, 2} : OnMousedown(onElement, button)
  \/ \E d \in AnchorRotateDeltas : DragCallback(TRUE, d[1], d[2])
  \/ \E d \in AnchorPanDeltas : DragCallback(FALSE, d[1], d[2])
  \/ DragEnd

SpecAnchor == Init /\ [][NextAnchor]_vars

\* what a step does to the anchor of the drag
AnchorStep ==
  /\ (last'.op = "mousedown" /\ last'.ret) =>
       (drag'.active /\ drag'.initialPosition = mouseState'.position)
  /\ (last'.op \in {"dragRotate", "dragPan"}) =>
       (drag'.initialPosition = drag.initialPosition)
  /\ (last'.op = "dragRotate") =>
       (\A i \in 1..Len(last'.rotations) :
          last'.rotations[i][3] = drag.initialPosition)

\* C18: the anchor is the selection state's position at the mousedown that
\* starts the drag; no callback of the drag changes it, and every
\* rotateAbsolute call of the drag is given it, also after pan callbacks of
\* the same drag have moved the navigation position
AnchorFixedForGesture == [][AnchorStep]_vars

\* a rotate callback that follows a pan callback of the same drag, with the
\* navigation position away from the anchor
RotatedAfterPanInSameDrag ==
  /\ last.op = "dragRotate" /\ Len(last.rotations) = 2
  /\ drag.active /\ ~drag.horizontalRotate
  /\ last.rotations[1][3] = drag.initialPosition
  /\ nav.position # drag.initialPosition

-----------------------------------------------------------------------------
(* The hit test between frames (checked under SpecFrames) *)

\* the layers that come and go
FrameLayers == {1, 2}

\* cursor positions tried: the pixel of the first object of each of them
FramePts == {<<PixelOf(l, 1)[1], 2 - PixelOf(l, 1)[2]>> : l \in FrameLayers}

\* frames, resizes and hit tests while layers come and go
NextFrames ==
  \/ Draw
  \/ \E size \in ClientSizes : OnResize(size)
  \/ \E l \in FrameLayers : AttachLayer(l)
  \/ \E l \in FrameLayers : DetachLayer(l)
  \/ UpdateMouseState
  \/ \E pt \in FramePts : MouseMove(pt)
  \/ NavigationReady(<<AxisX, AxisY>>)

SpecFrames == Init /\ [][NextFrames]_vars

\* C19: whenever updateMouseState returns true, the Pick ID Manager holds the
\* mapping of the last frame drawn and the pick attachment holds the values of
\* that frame: every nonzero value in it resolves to the layer and payload
\* that painted that pixel, and so does the value read at the cursor.
PickReadBelongsToCurrentFrame ==
  (last.op = "updateMouseState" /\ last.ret) =>
    /\ Range(frameIDs) = 1..Len(pickIDs)
    /\ \A p \in Pixels :
         fb.pick[p] # 0 =>
           /\ fb.pick[p] \in 1..Len(pickIDs)
           /\ PixelOf(pickIDs[fb.pick[p]][1], pickIDs[fb.pick[p]][2]) = p
    /\ last.pickValue # 0 =>
         /\ <<mouseState.pickedRenderLayer, mouseState.pickedValue>> = pickIDs[last.pickValue]
         /\ PixelOf(mouseState.pickedRenderLayer, mouseState.pickedValue)
              = <<mouse[1], sliceView.height - mouse[2]>>

\* a hit on a layer that holds the ID another layer held in an earlier frame,
\* and that has been detached since the frame was drawn
HitOnReissuedID ==
  /\ last.op = "updateMouseState" /\ last.ret
  /\ last.pickValue = 1
  /\ mouseState.pickedRenderLayer = 2
  /\ 2 \notin Range(visibleLayers)

-----------------------------------------------------------------------------
(* The start of a drag (checked under SpecAnchor) *)

\* what a mousedown and the drag callbacks may do
MousedownStep ==
  /\ \A onElement \in BOOLEAN, button \in {0, 2} :
       OnMousedown(onElement, button) =>
         /\ drag'.active <=>
              (/\ onElement
               /\ button = 0
               /\ HasValidViewport(sliceView)
               /\ UpdateMouseStateResult.ret)
         /\ nav' = nav
         /\ sliceView' = sliceView
  /\ (last'.op \in {"dragRotate", "dragPan"}) => drag.active
  /\ (~drag.active /\ ~drag'.active) =>
       (nav'.position = nav.position /\ nav'.orientation = nav.orientation)

====
